---- MODULE Spec2Model ----
(***************************************************************************)
(* Model of the resume analyzer of src/main.py: one analyze_resume request *)
(* from the upload to the returned report, with the skill matcher, the ATS *)
(* scorer, the report assembly, the DOCX generation and the critique call. *)
(* A Python str is a sequence of one-character strings, so that lower(),   *)
(* strip(), split("."), `in` and sorted() are computed character by        *)
(* character.                                                              *)
(***************************************************************************)
EXTENDS Integers, Sequences, FiniteSets

\* ------------------------------------------------------------------ bounds
\* Most pages (PDF) or paragraphs (DOCX) of an uploaded document.
MaxParts == 2
\* Most fragments a job-description text is made of.
MaxJdParts == 2

\* ------------------------------------------------------- Python str helpers
Range(s) == {s[i] : i \in 1..Len(s)}

UpperChars ==
    <<"A","B","C","D","E","F","G","H","I","J","K","L","M",
      "N","O","P","Q","R","S","T","U","V","W","X","Y","Z">>
LowerChars ==
    <<"a","b","c","d","e","f","g","h","i","j","k","l","m",
      "n","o","p","q","r","s","t","u","v","w","x","y","z">>

\* The characters of the model's texts.
Chars == Range(UpperChars) \cup Range(LowerChars) \cup {" ", ".", "\n"}

\* str.lower() on one character: an ASCII capital maps to its small letter.
LowerMap ==
    [c \in Chars |->
        IF \E i \in 1..Len(UpperChars) : UpperChars[i] = c
        THEN LowerChars[CHOOSE i \in 1..Len(UpperChars) : UpperChars[i] = c]
        ELSE c]

LowerChar(c) == LowerMap[c]

\* str.lower()
Lower(t) == [i \in 1..Len(t) |-> LowerChar(t[i])]

\* The code point of a character (ord), for the characters the model uses.
OrdMap ==
    [c \in Chars |->
        IF c = "\n" THEN 10
        ELSE IF c = " " THEN 32
        ELSE IF c = "." THEN 46
        ELSE IF \E i \in 1..Len(UpperChars) : UpperChars[i] = c
        THEN 64 + (CHOOSE i \in 1..Len(UpperChars) : UpperChars[i] = c)
        ELSE 96 + (CHOOSE i \in 1..Len(LowerChars) : LowerChars[i] = c)]

Ord(c) == OrdMap[c]

\* Python's `s in t` for two strings: s occurs in t as a contiguous run.
In(s, t) ==
    \E i \in 0..(Len(t) - Len(s)) : \A k \in 1..Len(s) : t[i + k] = s[k]

\* Python's `a < b` for two strings: lexicographic by code point, a proper
\* prefix first.
StrLess(a, b) ==
    \E i \in 1..(Len(b)) :
        /\ \A k \in 1..(i - 1) : k <= Len(a) /\ a[k] = b[k]
        /\ \/ i = Len(a) + 1
           \/ i <= Len(a) /\ Ord(a[i]) < Ord(b[i])

\* sorted(S) for a set S of strings.
RECURSIVE Sorted(_)
Sorted(S) ==
    IF S = {} THEN <<>>
    ELSE LET m == CHOOSE x \in S : \A y \in S \ {x} : StrLess(x, y)
         IN  <<m>> \o Sorted(S \ {m})

IsSpace(c) == c \in {" ", "\n"}

\* str.strip(): white space removed at both ends.
RECURSIVE Strip(_)
Strip(t) ==
    IF t = <<>> THEN t
    ELSE IF IsSpace(t[1]) THEN Strip(Tail(t))
    ELSE IF IsSpace(t[Len(t)]) THEN Strip(SubSeq(t, 1, Len(t) - 1))
    ELSE t

\* str.split("."): the components between the dots.
RECURSIVE Split(_)
Split(t) ==
    IF "." \notin Range(t) THEN <<t>>
    ELSE LET i == CHOOSE k \in 1..Len(t) :
                      t[k] = "." /\ \A j \in 1..(k - 1) : t[j] # "."
         IN  <<SubSeq(t, 1, i - 1)>> \o Split(SubSeq(t, i + 1, Len(t)))

\* "".join(parts)
RECURSIVE Concat(_)
Concat(parts) ==
    IF parts = <<>> THEN <<>> ELSE Head(parts) \o Concat(Tail(parts))

\* "\n".join(parts)
RECURSIVE JoinLines(_)
JoinLines(parts) ==
    IF parts = <<>> THEN <<>>
    ELSE IF Len(parts) = 1 THEN Head(parts)
    ELSE Head(parts) \o <<"\n">> \o JoinLines(Tail(parts))

\* ------------------------------------------------------------- vocabulary
COMMON_SKILLS ==
    << <<"p","y","t","h","o","n">>,
       <<"j","a","v","a">>,
       <<"j","a","v","a","s","c","r","i","p","t">>,
       <<"r","e","a","c","t">>,
       <<"n","e","x","t",".","j","s">>,
       <<"n","o","d","e",".","j","s">>,
       <<"f","a","s","t","a","p","i">>,
       <<"s","q","l">>,
       <<"m","y","s","q","l">>,
       <<"p","o","s","t","g","r","e","s","q","l">>,
       <<"m","o","n","g","o","d","b">>,
       <<"a","w","s">>,
       <<"d","o","c","k","e","r">>,
       <<"k","u","b","e","r","n","e","t","e","s">>,
       <<"g","i","t">>,
       <<"g","i","t","h","u","b">>,
       <<"r","e","s","t"," ","a","p","i">>,
       <<"h","t","m","l">>,
       <<"c","s","s">>,
       <<"f","l","u","t","t","e","r">>,
       <<"d","a","r","t">>,
       <<"m","a","c","h","i","n","e"," ","l","e","a","r","n","i","n","g">>,
       <<"d","a","t","a"," ","a","n","a","l","y","s","i","s">> >>

\* A list comprehension [x for x in xs if x in keep-set], order of xs kept.
RECURSIVE Filter(_, _)
Filter(xs, keep) ==
    IF xs = <<>> THEN <<>>
    ELSE IF Head(xs) \in keep THEN <<Head(xs)>> \o Filter(Tail(xs), keep)
    ELSE Filter(Tail(xs), keep)

\* ----------------------------------------------------------- pure functions
\* extract_skills without lower(): the text is searched as it is.
extract_skills_no_lower(text) ==
    Filter(COMMON_SKILLS, {s \in Range(COMMON_SKILLS) : In(s, text)})

extract_skills(text) ==
    LET t == Lower(text)
    IN  Filter(COMMON_SKILLS, {s \in Range(COMMON_SKILLS) : In(s, t)})

\* sum(1 for s in jd_skills if s in resume_text), duplicates counted.
RECURSIVE CountIn(_, _)
CountIn(jd_skills, text) ==
    IF jd_skills = <<>> THEN 0
    ELSE (IF In(Head(jd_skills), text) THEN 1 ELSE 0)
         + CountIn(Tail(jd_skills), text)

\* The scorer with the empty list scored as a full match.
ats_keyword_score_empty_full(resume_text, jd_skills) ==
    IF jd_skills = <<>> THEN 100
    ELSE (CountIn(jd_skills, Lower(resume_text)) * 100) \div Len(jd_skills)

\* The scorer without lower() on the resume text.
ats_keyword_score_no_lower(resume_text, jd_skills) ==
    IF jd_skills = <<>> THEN 0
    ELSE (CountIn(jd_skills, resume_text) * 100) \div Len(jd_skills)

\* int((matched / len(jd_skills)) * 100): int() truncates, and for a list
\* of fewer than 50 skills the double product truncates to
\* floor(100 * matched / len).
ats_keyword_score(resume_text, jd_skills) ==
    IF jd_skills = <<>> THEN 0
    ELSE (CountIn(jd_skills, Lower(resume_text)) * 100) \div Len(jd_skills)

\* The matched list in job-description order, not sorted.
MatchedSkillsUnsorted(resume_skills, jd_skills) ==
    Filter(jd_skills, Range(resume_skills))

\* sorted(set(resume_skills) & set(jd_skills))
MatchedSkills(resume_skills, jd_skills) ==
    Sorted(Range(resume_skills) \cap Range(jd_skills))

\* The missing list taken from the whole vocabulary.
MissingSkillsOfVocabulary(resume_skills, jd_skills) ==
    Sorted(Range(COMMON_SKILLS) \ Range(resume_skills))

\* sorted(set(jd_skills) - set(resume_skills))
MissingSkills(resume_skills, jd_skills) ==
    Sorted(Range(jd_skills) \ Range(resume_skills))

\* The score map with the two values swapped.
SkillScoresSwapped(jd_skills, matched) ==
    [s \in Range(jd_skills) |-> IF s \in Range(matched) THEN 0 ELSE 100]

\* {s: (100 if s in matched else 0) for s in jd_skills}
SkillScores(jd_skills, matched) ==
    [s \in Range(jd_skills) |-> IF s \in Range(matched) THEN 100 ELSE 0]

\* ----------------------------------------------------------------- inputs
Fragments ==
    { <<"J","a","v","a">>,
      <<"s","c","r","i","p","t">>,
      <<"G","i","t","H","u","b">>,
      <<"P","y","t","h","o","n"," ">> }

SeqsUpTo(S, n) == UNION {[1..k -> S] : k \in 0..n}

\* An uploaded document: its pages or paragraphs, or one no parser opens.
Documents ==
    {[corrupt |-> FALSE, parts |-> p] : p \in SeqsUpTo(Fragments, MaxParts)}
    \cup {[corrupt |-> TRUE, parts |-> <<>>]}

JobDescriptions == {Concat(p) : p \in SeqsUpTo(Fragments, MaxJdParts)}

FileNames ==
    { <<"c","v",".","P","D","F">>,
      <<"c","v",".","d","o","c","x">>,
      <<"c","v",".","t","x","t">>,
      <<"c","v",".","p","d","f",".","e","x","e">>,
      <<"c","v",".","d","o","c","x",".">> }

PDF == <<"p","d","f">>
DOCX == <<"d","o","c","x">>

\* What the HTTP POST to the critique service can end in.
Responses ==
    { [exc |-> "ConnectionError", status |-> 0, json |-> "none", content |-> <<>>],
      [exc |-> "Timeout", status |-> 0, json |-> "none", content |-> <<>>],
      [exc |-> "none", status |-> 500, json |-> "none", content |-> <<>>],
      [exc |-> "none", status |-> 200, json |-> "invalid", content |-> <<>>],
      [exc |-> "none", status |-> 200, json |-> "no_choices", content |-> <<>>],
      [exc |-> "none", status |-> 200, json |-> "empty_choices", content |-> <<>>],
      [exc |-> "none", status |-> 200, json |-> "content_null", content |-> <<>>],
      [exc |-> "none", status |-> 200, json |-> "ok",
       content |-> <<" ","o","k","."," ">>] }

\* ------------------------------------------------------------------ state
VARIABLES
    OPENROUTER_API_KEY, \* whether the environment sets the key
    pc,                 \* where the request is
    filename,           \* resume.filename
    upload,             \* the uploaded document
    job_description,
    suffix, path, resume_text, resume_skills, jd_skills,
    matched, missing, score, skill_scores, download_id,
    result,             \* what the request ended in
    tmpFiles,           \* the temporary files that exist
    generated,          \* the files under generated/
    extractCalls,       \* calls of the document text extraction
    postCalls           \* HTTP POSTs to the critique service

vars ==
    <<OPENROUTER_API_KEY, pc, filename, upload, job_description, suffix, path,
      resume_text, resume_skills, jd_skills, matched, missing, score,
      skill_scores, download_id, result, tmpFiles, generated, extractCalls,
      postCalls>>

None == "None"
NoScores == [s \in {} |-> 0]
NoResult == [kind |-> "none"]

Init ==
    /\ OPENROUTER_API_KEY \in BOOLEAN
    /\ pc = "idle"
    /\ filename = <<>>
    /\ upload = [corrupt |-> FALSE, parts |-> <<>>]
    /\ job_description = <<>>
    /\ suffix = <<>>
    /\ path = None
    /\ resume_text = <<>>
    /\ resume_skills = <<>>
    /\ jd_skills = <<>>
    /\ matched = <<>>
    /\ missing = <<>>
    /\ score = 0
    /\ skill_scores = NoScores
    /\ download_id = None
    /\ result = NoResult
    /\ tmpFiles = {}
    /\ generated = {}
    /\ extractCalls = 0
    /\ postCalls = 0

\* resume.filename.split(".")[-1].lower()
SuffixOf(name) == LET c == Split(name) IN Lower(c[Len(c)])

\* The check with "txt" let through.
SupportedOrTxt(sfx) == sfx \in {PDF, DOCX, <<"t","x","t">>}

\* suffix in ["pdf", "docx"]
Supported(sfx) == sfx \in {PDF, DOCX}

\* analyze_resume up to the temporary copy: the suffix check, and the upload
\* written to a temporary file that is kept when it is closed (delete=False).
Start(fn, doc, jd) ==
    /\ pc = "idle"
    /\ filename' = fn
    /\ upload' = doc
    /\ job_description' = jd
    /\ suffix' = SuffixOf(fn)
    /\ IF Supported(SuffixOf(fn))
       THEN /\ path' = "tmp1"
            /\ tmpFiles' = tmpFiles \cup {"tmp1"}
            /\ pc' = "saved"
            /\ result' = result
       ELSE /\ result' = [kind |-> "error",
                          error |-> "Only PDF and DOCX supported"]
            /\ pc' = "done"
            /\ UNCHANGED <<path, tmpFiles>>
    /\ UNCHANGED <<OPENROUTER_API_KEY, resume_text, resume_skills, jd_skills,
                   matched, missing, score, skill_scores, download_id,
                   generated, extractCalls, postCalls>>

extract_text_from_pdf(doc) == Strip(Concat(doc.parts))

extract_text_from_docx(doc) == Strip(JoinLines(doc.parts))

\* The text extraction: a document the parser cannot open raises, and the
\* exception leaves analyze_resume.
ExtractText ==
    /\ pc = "saved"
    /\ extractCalls' = extractCalls + 1
    /\ IF upload.corrupt
       THEN /\ pc' = "raised"
            /\ result' = [kind |-> "exception", at |-> "extract"]
            /\ UNCHANGED resume_text
       ELSE /\ resume_text' = IF suffix = PDF
                              THEN extract_text_from_pdf(upload)
                              ELSE extract_text_from_docx(upload)
            /\ pc' = "extracted"
            /\ result' = result
    /\ UNCHANGED <<OPENROUTER_API_KEY, filename, upload, job_description,
                   suffix, path, resume_skills, jd_skills, matched, missing,
                   score, skill_scores, download_id, tmpFiles, generated,
                   postCalls>>

\* The skills, the matched and missing lists, the score and the score map.
Analyze ==
    /\ pc = "extracted"
    /\ LET rs == extract_skills(resume_text)
           js == extract_skills(job_description)
           ma == MatchedSkills(rs, js)
       IN  /\ resume_skills' = rs
           /\ jd_skills' = js
           /\ matched' = ma
           /\ missing' = MissingSkills(rs, js)
           /\ score' = ats_keyword_score(resume_text, js)
           /\ skill_scores' = SkillScores(js, ma)
    /\ pc' = "scored"
    /\ UNCHANGED <<OPENROUTER_API_KEY, filename, upload, job_description,
                   suffix, path, resume_text, download_id, result, tmpFiles,
                   generated, extractCalls, postCalls>>

\* update_docx_resume for a DOCX upload: a new file under generated/. What
\* the file holds is not tracked.
UpdateDocx ==
    /\ pc = "scored"
    /\ IF suffix = DOCX
       THEN /\ download_id' = "uuid1"
            /\ generated' = generated \cup {"uuid1"}
       ELSE UNCHANGED <<download_id, generated>>
    /\ pc' = "critique"
    /\ UNCHANGED <<OPENROUTER_API_KEY, filename, upload, job_description,
                   suffix, path, resume_text, resume_skills, jd_skills,
                   matched, missing, score, skill_scores, result, tmpFiles,
                   extractCalls, postCalls>>

Returned(prefix, body) == [raised |-> FALSE, prefix |-> prefix, body |-> body]
Raised(exc) == [raised |-> TRUE, prefix |-> exc, body |-> <<>>]

\* The body of openrouter_think's try block.
TryPost(resp) ==
    IF resp.exc # "none" THEN Raised(resp.exc)
    ELSE IF resp.status # 200 THEN Returned("OpenRouter error: ", <<>>)
    ELSE IF resp.json = "invalid" THEN Raised("ValueError")
    ELSE IF resp.json = "no_choices" THEN Raised("KeyError")
    ELSE IF resp.json = "empty_choices" THEN Raised("IndexError")
    ELSE IF resp.json = "content_null" THEN Raised("AttributeError")
    ELSE Returned("", Strip(resp.content))

\* openrouter_think without its except clause.
openrouter_think_no_except(key, resp) ==
    IF ~key
    THEN Returned("AI analysis unavailable (API key not configured).", <<>>)
    ELSE TryPost(resp)

openrouter_think(key, resp) ==
    IF ~key
    THEN Returned("AI analysis unavailable (API key not configured).", <<>>)
    ELSE LET r == TryPost(resp)
         IN  IF r.raised THEN Returned("AI error: ", <<>>) ELSE r

\* ai_analysis and the return of the report.
Critique(resp) ==
    /\ pc = "critique"
    /\ postCalls' = IF OPENROUTER_API_KEY THEN postCalls + 1 ELSE postCalls
    /\ LET r == openrouter_think(OPENROUTER_API_KEY, resp)
       IN  IF r.raised
           THEN /\ pc' = "raised"
                /\ result' = [kind |-> "exception", at |-> "critique"]
           ELSE /\ pc' = "done"
                /\ result' = [kind |-> "report",
                              score |-> score,
                              matched_skills |-> matched,
                              missing_skills |-> missing,
                              skill_scores |-> skill_scores,
                              ai_analysis |-> [analysis_text |->
                                  [prefix |-> r.prefix, body |-> r.body]],
                              download_id |-> download_id]
    /\ UNCHANGED <<OPENROUTER_API_KEY, filename, upload, job_description,
                   suffix, path, resume_text, resume_skills, jd_skills,
                   matched, missing, score, skill_scores, download_id,
                   tmpFiles, generated, extractCalls>>

\* A request arrives with a file name, a document and a job description.
Request ==
    /\ pc = "idle"
    /\ \E fn \in FileNames, doc \in Documents, jd \in JobDescriptions :
           Start(fn, doc, jd)

Next ==
    \/ Request
    \/ ExtractText
    \/ Analyze
    \/ UpdateDocx
    \/ \E resp \in Responses : Critique(resp)

Spec == Init /\ [][Next]_vars

\* ------------------------------------------------------------------ claims
\* The skills, the lists, the score and the score map have been computed.
Analyzed ==
    \/ pc \in {"scored", "critique"}
    \/ pc = "done" /\ result.kind = "report"

HasReport == pc = "done" /\ result.kind = "report"

JAVA == <<"j","a","v","a">>
JAVASCRIPT == <<"j","a","v","a","s","c","r","i","p","t">>

\* a < b for every earlier a and later b of the sequence.
Ascending(s) == \A i, j \in 1..Len(s) : i < j => StrLess(s[i], s[j])

\* Python's round(num / den): to the nearest integer, a tie to the even one.
RoundHalfEven(num, den) ==
    LET q == num \div den
        r == num % den
    IN  IF 2 * r < den THEN q
        ELSE IF 2 * r > den THEN q + 1
        ELSE IF q % 2 = 0 THEN q ELSE q + 1

\* C1: in every report matched_skills and missing_skills share no element,
\* and together they are exactly the skills extract_skills finds in the job
\* description.
C1_MatchedMissingPartition ==
    HasReport =>
        LET M == Range(result.matched_skills)
            X == Range(result.missing_skills)
        IN  /\ M \cap X = {}
            /\ M \cup X = Range(extract_skills(job_description))

\* A report with a matched and a missing skill.
C1_Witness ==
    /\ HasReport
    /\ result.matched_skills # <<>>
    /\ result.missing_skills # <<>>

\* C2: for a non-empty target list the score is
\* round(matched_count / total_target_skills * 100), matched_count being the
\* number of target skills that occur in the lower-cased resume text.
C2_ScoreIsRounded ==
    (Analyzed /\ jd_skills # <<>>) =>
        score = RoundHalfEven(100 * CountIn(jd_skills, Lower(resume_text)),
                              Len(jd_skills))

\* C3: a job description with no vocabulary skill gives score 0 and empty
\* matched_skills, missing_skills and skill_scores, whatever the resume
\* holds.
C3_EmptyTargetsScoreZero ==
    /\ (Analyzed /\ extract_skills(job_description) = <<>>) =>
           /\ score = 0
           /\ matched = <<>>
           /\ missing = <<>>
           /\ DOMAIN skill_scores = {}
    /\ (HasReport /\ extract_skills(job_description) = <<>>) =>
           /\ result.score = 0
           /\ result.matched_skills = <<>>
           /\ result.missing_skills = <<>>
           /\ DOMAIN result.skill_scores = {}

\* A report for a job description without skills and a resume with some.
C3_Witness ==
    /\ HasReport
    /\ jd_skills = <<>>
    /\ resume_skills # <<>>

\* What extract_skills returned for a text is what C4 says of it.
C4_Holds(text, res) ==
    /\ Range(res) = {v \in Range(COMMON_SKILLS) : In(v, Lower(text))}
    /\ Range(res) \subseteq Range(COMMON_SKILLS)
    /\ Cardinality(Range(res)) = Len(res)
    /\ text = <<>> => res = <<>>
    /\ In(JAVASCRIPT, Lower(text)) =>
           JAVA \in Range(res) /\ JAVASCRIPT \in Range(res)

\* C4: extract_skills returns exactly the vocabulary entries that occur in
\* the lower-cased text: a subset of the vocabulary, without duplicates,
\* empty for the empty text, and with "java" beside "javascript" for a text
\* that holds "javascript".
C4_ExtractSkillsIsVocabularyInText ==
    Analyzed =>
        /\ C4_Holds(resume_text, resume_skills)
        /\ C4_Holds(job_description, jd_skills)

\* An empty resume text, and a job description holding "Javascript".
C4_Witness ==
    /\ Analyzed
    /\ resume_text = <<>>
    /\ resume_skills = <<>>
    /\ In(JAVASCRIPT, Lower(job_description))
    /\ ~In(JAVASCRIPT, job_description)
    /\ {JAVA, JAVASCRIPT} \subseteq Range(jd_skills)

\* C5 as the specification states it: what extract_skills returns is in
\* ascending sorted order.
C5_ExtractSkillsAscending ==
    Analyzed => Ascending(resume_skills) /\ Ascending(jd_skills)

\* The sequence keeps the order of COMMON_SKILLS.
InVocabularyOrder(s) == s = Filter(COMMON_SKILLS, Range(s))

\* C5, amended: what extract_skills returns is in the order of COMMON_SKILLS;
\* it is matched_skills and missing_skills that are in ascending sorted
\* order.
C5_VocabularyOrderThenSortedLists ==
    Analyzed =>
        /\ InVocabularyOrder(resume_skills)
        /\ InVocabularyOrder(jd_skills)
        /\ Ascending(matched)
        /\ Ascending(missing)

\* The skills found are not ascending, and two of them are matched.
C5_Witness ==
    /\ HasReport
    /\ ~Ascending(jd_skills)
    /\ ~Ascending(resume_skills)
    /\ Len(result.matched_skills) >= 2

\* C6: the keys of skill_scores are the job-description skills, each value
\* is 0 or 100, 100 exactly for the matched skills and 0 exactly for the
\* missing ones.
C6_SkillScoresBinary ==
    HasReport =>
        /\ DOMAIN result.skill_scores = Range(extract_skills(job_description))
        /\ \A s \in DOMAIN result.skill_scores :
               /\ result.skill_scores[s] \in {0, 100}
               /\ result.skill_scores[s] = 100
                      <=> s \in Range(result.matched_skills)
               /\ result.skill_scores[s] = 0
                      <=> s \in Range(result.missing_skills)

\* A report with a skill at 100 and a skill at 0.
C6_Witness ==
    /\ HasReport
    /\ \E s, t \in DOMAIN result.skill_scores :
           result.skill_scores[s] = 100 /\ result.skill_scores[t] = 0

CritiqueTexts ==
    { "AI analysis unavailable (API key not configured).",
      "AI error: ", "OpenRouter error: ", "" }

\* C7: whatever the critique call ends in, the step that makes it returns
\* the report, with a string as the analysis text and the score, the lists
\* and the score map as they were computed before the call.
C7_CritiqueNeverAborts ==
    [][(pc = "critique" /\ pc' # "critique") =>
          /\ pc' = "done"
          /\ result'.kind = "report"
          /\ result'.ai_analysis.analysis_text.prefix \in CritiqueTexts
          /\ result'.score = score
          /\ result'.matched_skills = matched
          /\ result'.missing_skills = missing
          /\ result'.skill_scores = skill_scores]_vars

\* A report returned after the critique call raised inside openrouter_think.
C7_Witness ==
    /\ HasReport
    /\ postCalls = 1
    /\ result.ai_analysis.analysis_text.prefix = "AI error: "
    /\ result.matched_skills # <<>>

\* C8: a file name whose last dot-separated component, lower-cased, is
\* neither "pdf" nor "docx" ends the request with the error result, and
\* no temporary file, extraction, generated file or critique call is made.
C8_UnsupportedSuffixStopsEarly ==
    LET c == Split(filename)
    IN  (pc # "idle" /\ Lower(c[Len(c)]) \notin {PDF, DOCX}) =>
            /\ pc = "done"
            /\ result.kind = "error"
            /\ tmpFiles = {}
            /\ generated = {}
            /\ extractCalls = 0
            /\ postCalls = 0

\* The request for "cv.pdf.exe" has ended with the error result.
C8_Witness ==
    /\ pc = "done"
    /\ result.kind = "error"
    /\ filename = <<"c","v",".","p","d","f",".","e","x","e">>

\* C9: the scorer's count of job-description skills in the resume text is
\* the length of matched_skills, the score is 100 exactly when nothing is
\* missing of a non-empty skill set, and 0 exactly when nothing is matched.
C9_ScoreAgreesWithLists ==
    Analyzed =>
        /\ CountIn(jd_skills, Lower(resume_text)) = Len(matched)
        /\ score = 100 <=> (missing = <<>> /\ jd_skills # <<>>)
        /\ score = 0 <=> matched = <<>>

\* Two of three job-description skills are matched.
C9_Witness ==
    /\ Analyzed
    /\ Len(jd_skills) = 3
    /\ Len(matched) = 2
    /\ Len(missing) = 1
    /\ score = 66

\* C10 as the specification states it: once the request has ended, by a
\* return or by a failed extraction, the temporary copy is gone and the only
\* file left is the generated DOCX, none for a PDF upload.
C10_NoTemporaryFileLeft ==
    pc \in {"done", "raised"} =>
        /\ tmpFiles = {}
        /\ generated \subseteq (IF suffix = DOCX THEN {download_id} ELSE {})

====
